---- MODULE Spec2Model ----
(***************************************************************************)
(* A model of ariac_example_node.cpp: the startup gate start_competition,  *)
(* the observer MyCompetition with its notification handlers, the two free *)
(* sensor handlers, and main, which registers eight subscriptions, runs    *)
(* the startup gate and then dispatches queued notifications one at a time *)
(* (ros::spin).                                                            *)
(*                                                                         *)
(* Floating-point values are records [cls, v]: cls is "finite", "nan",     *)
(* "pinf" or "ninf", and v is the value of a finite number.  Ranges of the *)
(* proximity sensor are counted in thousandths (0.001), so that the        *)
(* threshold 0.01 of proximity_sensor_callback is 10.                      *)
(***************************************************************************)
EXTENDS Integers, Sequences, FiniteSets, TLC

VARIABLES
    pc,                     \* position of main / start_competition
    serviceExists,          \* whether /ariac/start_competition is advertised
    existed,                \* what start_client.exists() returned: "yes", "no"; "unasked" before
    requests,               \* number of start_client.call(srv) invocations
    srv,                    \* srv.response of start_competition; ret is what call(srv) returned
    log,                    \* every log line emitted so far, in order
    queue,                  \* callback queue: notifications received, not yet handled
    arrived,                \* number of notifications received so far
    history,                \* notifications handled so far, in order
    current_score_,         \* MyCompetition::current_score_
    competition_state_,     \* MyCompetition::competition_state_
    received_orders_,       \* MyCompetition::received_orders_
    current_joint_states_,  \* MyCompetition::current_joint_states_
    has_been_zeroed_,       \* MyCompetition::has_been_zeroed_
    published,              \* messages published on /ariac/arm/command, in order
    now,                    \* the last reading of ros::Time::now(), in seconds
    last_hit                \* last_hit of each throttled log statement

vars == <<pc, serviceExists, existed, requests, srv, log, queue, arrived, history,
          current_score_, competition_state_, received_orders_,
          current_joint_states_, has_been_zeroed_, published, now, last_hit>>

gateVars == <<pc, serviceExists, existed, requests, srv>>
observerVars == <<current_score_, competition_state_, received_orders_,
                  current_joint_states_, has_been_zeroed_, published>>

----------------------------------------------------------------------------
(* Bounds of the model. *)

\* notifications received, over all topics, in Spec
MaxArrivals == 2
\* notifications received on the observer's four stateful topics, in ObserverSpec
MaxObserverArrivals == 3
\* the clock does not read beyond this many seconds
MaxTime == 20

(* Program constants. *)

\* queue size of every subscription
QueueSize == 10
\* ROS_INFO_STREAM_THROTTLE(10, ...) in joint_state_callback and logical_camera_callback
SlowPeriod == 10
\* ROS_INFO_THROTTLE(1, ...) in proximity_sensor_callback and laser_profiler_callback
FastPeriod == 1
\* 0.01, in thousandths
ProximityThreshold == 10

----------------------------------------------------------------------------
(* Floating point. *)

F(x) == [cls |-> "finite", v |-> x]
NaN == [cls |-> "nan", v |-> 0]
PosInf == [cls |-> "pinf", v |-> 0]
NegInf == [cls |-> "ninf", v |-> 0]

\* a != b
FloatNe(a, b) == a.cls = "nan" \/ b.cls = "nan" \/ a # b

\* a - b
FloatSub(a, b) ==
    IF a.cls = "nan" \/ b.cls = "nan" THEN NaN
    ELSE IF a.cls = "finite" /\ b.cls = "finite" THEN F(a.v - b.v)
    ELSE IF a.cls = b.cls THEN NaN
    ELSE IF a.cls = "pinf" \/ b.cls = "ninf" THEN PosInf
    ELSE NegInf

\* a > t, t a finite number
FloatGt(a, t) ==
    CASE a.cls = "finite" -> a.v > t
      [] a.cls = "pinf" -> TRUE
      [] OTHER -> FALSE

\* std::isfinite
IsFinite(a) == a.cls = "finite"

----------------------------------------------------------------------------
(* Log lines: the text of the statement and, where a claim reads it, the   *)
(* streamed argument.                                                      *)

Line(text) == [text |-> text, arg |-> ""]
LineWith(text, arg) == [text |-> text, arg |-> arg]

RECURSIVE CountText(_, _)
CountText(lines, text) ==
    IF lines = <<>> THEN 0
    ELSE (IF Head(lines).text = text THEN 1 ELSE 0) + CountText(Tail(lines), text)

RECURSIVE CountLine(_, _)
CountLine(lines, line) ==
    IF lines = <<>> THEN 0
    ELSE (IF Head(lines) = line THEN 1 ELSE 0) + CountLine(Tail(lines), line)

\* position of the first line with this text, 0 when there is none
RECURSIVE FirstAt(_, _, _)
FirstAt(lines, text, i) ==
    IF i > Len(lines) THEN 0
    ELSE IF lines[i].text = text THEN i
    ELSE FirstAt(lines, text, i + 1)

Pos(text) == FirstAt(log, text, 1)

----------------------------------------------------------------------------
(* Inputs. *)

Scores == {F(0), F(1), NaN}
CompetitionStates == {"running", "done"}
Orders == {"order_0", "order_1"}
JointStates == {"joints_a", "joints_b"}
ResponseMessages == {"", "X"}
\* max_range 0.150; ranges at 0.020, 0.010 and 0.005 below it, at it, above it, unknown
ProximityReadings ==
    {[max_range |-> F(150), range |-> r] :
        r \in {F(130), F(140), F(145), F(150), F(170), NaN}}
BreakBeams == BOOLEAN
CameraImages == {0, 2}
\* scans with no sample, with non-finite samples only, and with a finite sample
\* first, last and in the middle
LaserScans ==
    {<<>>, <<PosInf>>, <<NaN, NegInf>>, <<F(1)>>, <<PosInf, F(1)>>,
     <<NaN, F(2), PosInf>>, <<F(1), F(2)>>}
TimeSteps == {0, 1, 10}

Msg(topic, data) == [topic |-> topic, data |-> data]

----------------------------------------------------------------------------
(* Construction: MyCompetition::MyCompetition and the start of main. *)

Init ==
    /\ pc = "main"
    /\ serviceExists \in BOOLEAN
    /\ existed = "unasked"
    /\ requests = 0
    /\ srv = [ret |-> FALSE, success |-> FALSE, message |-> ""]
    /\ log = <<>>
    /\ queue = <<>>
    /\ arrived = 0
    /\ history = <<>>
    /\ current_score_ = F(0)
    /\ competition_state_ = ""
    /\ received_orders_ = <<>>
    /\ current_joint_states_ = "empty"
    /\ has_been_zeroed_ = FALSE
    /\ published = <<>>
    /\ now = 0
    /\ last_hit = [site \in {"joint", "camera", "proximity", "laser"} |-> 0]

----------------------------------------------------------------------------
(* main, up to the call of start_competition. *)

\* the eight node.subscribe calls and ROS_INFO("Setup complete.")
Setup ==
    /\ pc = "main"
    /\ pc' = "exists"
    /\ log' = Append(log, Line("Setup complete."))
    /\ UNCHANGED <<serviceExists, existed, requests, srv, queue, arrived, history,
                   observerVars, now, last_hit>>

\* a subscription exists from node.subscribe on
Subscribed == pc # "main"

----------------------------------------------------------------------------
(* The environment: the competition's service and its publishers. *)

\* the competition advertises /ariac/start_competition
ServiceUp ==
    /\ ~serviceExists
    /\ serviceExists' = TRUE
    /\ UNCHANGED <<pc, existed, requests, srv, log, queue, arrived, history,
                   observerVars, now, last_hit>>

RECURSIVE CountTopic(_, _)
CountTopic(q, topic) ==
    IF q = <<>> THEN 0
    ELSE (IF Head(q).topic = topic THEN 1 ELSE 0) + CountTopic(Tail(q), topic)

\* q without its oldest notification of the topic
RECURSIVE DropOldest(_, _)
DropOldest(q, topic) ==
    IF q = <<>> THEN <<>>
    ELSE IF Head(q).topic = topic THEN Tail(q)
    ELSE <<Head(q)>> \o DropOldest(Tail(q), topic)

\* a subscription keeps the QueueSize newest notifications of its topic
Enqueue(q, m) ==
    IF CountTopic(q, m.topic) >= QueueSize
    THEN Append(DropOldest(q, m.topic), m)
    ELSE Append(q, m)

\* a notification is received on a subscribed topic
Arrive(m, bound) ==
    /\ Subscribed
    /\ arrived < bound
    /\ arrived' = arrived + 1
    /\ queue' = Enqueue(queue, m)
    /\ UNCHANGED <<gateVars, log, history, observerVars, now, last_hit>>

ArriveScore(bound) == \E v \in Scores : Arrive(Msg("current_score", v), bound)
ArriveCompetitionState(bound) ==
    \E v \in CompetitionStates : Arrive(Msg("competition_state", v), bound)
ArriveOrder(bound) == \E v \in Orders : Arrive(Msg("orders", v), bound)
ArriveJointState(bound) == \E v \in JointStates : Arrive(Msg("joint_states", v), bound)
ArriveProximity(bound) ==
    \E v \in ProximityReadings : Arrive(Msg("proximity_sensor_1", v), bound)
ArriveBreakBeam(bound) == \E v \in BreakBeams : Arrive(Msg("break_beam_1_change", v), bound)
ArriveLogicalCamera(bound) ==
    \E v \in CameraImages : Arrive(Msg("logical_camera_1", v), bound)
ArriveLaserScan(bound) == \E v \in LaserScans : Arrive(Msg("laser_profiler_1", v), bound)

----------------------------------------------------------------------------
(* start_competition. *)

\* start_client.waitForExistence() returns
WaitReturns_never == FALSE
WaitReturns_at_once == TRUE
WaitReturns == serviceExists

\* if (!start_client.exists()) { ROS_INFO("Waiting ..."); ...
CheckExists ==
    /\ pc = "exists"
    /\ IF ~serviceExists
       THEN /\ existed' = "no"
            /\ log' = Append(log, Line("Waiting for the competition to be ready..."))
            /\ pc' = "wait"
       ELSE /\ existed' = "yes"
            /\ log' = log
            /\ pc' = "request"
    /\ UNCHANGED <<serviceExists, requests, srv, queue, arrived, history,
                   observerVars, now, last_hit>>

\* ... start_client.waitForExistence(); ROS_INFO("Competition is now ready."); }
WaitForExistence ==
    /\ pc = "wait"
    /\ WaitReturns
    /\ log' = Append(log, Line("Competition is now ready."))
    /\ pc' = "request"
    /\ UNCHANGED <<serviceExists, existed, requests, srv, queue, arrived, history,
                   observerVars, now, last_hit>>

\* ROS_INFO("Requesting competition start..."); start_client.call(srv) is entered
RequestStart ==
    /\ pc = "request"
    /\ log' = Append(log, Line("Requesting competition start..."))
    /\ requests' = requests + 1
    /\ pc' = "call"
    /\ UNCHANGED <<serviceExists, existed, srv, queue, arrived, history,
                   observerVars, now, last_hit>>

\* start_client.call(srv) returns: the server answered, or the call failed
\* and left srv.response as constructed
CallReturns ==
    /\ pc = "call"
    /\ \/ \E ok \in BOOLEAN, text \in ResponseMessages :
            srv' = [ret |-> TRUE, success |-> ok, message |-> text]
       \/ srv' = [srv EXCEPT !.ret = FALSE]
    /\ pc' = "check"
    /\ UNCHANGED <<serviceExists, existed, requests, log, queue, arrived, history,
                   observerVars, now, last_hit>>

\* the lines of if (!srv.response.success) ... else ...
ResultLines_both(response) ==
    <<LineWith("Failed to start the competition: ", response.message),
      Line("Competition started!")>>
ResultLines(response) ==
    IF ~response.success
    THEN <<LineWith("Failed to start the competition: ", response.message)>>
    ELSE <<Line("Competition started!")>>

\* where control goes when start_competition is done: main's ros::spin()
AfterStart_retry(response) == IF response.success THEN "spin" ELSE "request"
AfterStart_fatal(response) == IF response.success THEN "spin" ELSE "exit"
AfterStart(response) == "spin"

CheckResult ==
    /\ pc = "check"
    /\ log' = log \o ResultLines(srv)
    /\ pc' = AfterStart(srv)
    /\ UNCHANGED <<serviceExists, existed, requests, srv, queue, arrived, history,
                   observerVars, now, last_hit>>

----------------------------------------------------------------------------
(* ros::spin(): one queued notification at a time is handed to its handler. *)

Spinning_once_subscribed == Subscribed
Spinning_until_done == pc = "spin" /\ competition_state_ # "done"
Spinning == pc = "spin"

Dispatching(topic) ==
    /\ Spinning
    /\ queue # <<>>
    /\ Head(queue).topic = topic

\* the notification leaves the queue; the gate is not touched
Taken ==
    /\ queue' = Tail(queue)
    /\ history' = Append(history, Head(queue))
    /\ UNCHANGED <<gateVars, arrived>>

\* a reading of ros::Time::now()
Clock(t) == \E dt \in TimeSteps : t = now + dt /\ t <= MaxTime

\* ROS_*_THROTTLE(period, ...): if (last_hit + period <= now) { last_hit = now; log }
ThrottlePass_always(site, period, t) == TRUE
ThrottlePass(site, period, t) == last_hit[site] + period <= t

Throttled(site, period, t, line) ==
    IF ThrottlePass(site, period, t) THEN <<line>> ELSE <<>>

Hit(site, period, t) ==
    IF ThrottlePass(site, period, t) THEN [last_hit EXCEPT ![site] = t] ELSE last_hit

----------------------------------------------------------------------------
(* MyCompetition's handlers. *)

\* msg->data != current_score_
ScoreChanged_always(data) == TRUE
ScoreChanged_from_zero(data) == FloatNe(data, F(0))
ScoreChanged(data) == FloatNe(data, current_score_)

current_score_callback(data) ==
    /\ log' = IF ScoreChanged(data) THEN Append(log, Line("Score: ")) ELSE log
    /\ current_score_' = data
    /\ UNCHANGED <<competition_state_, received_orders_, current_joint_states_,
                   has_been_zeroed_, published, now, last_hit>>

\* msg->data == "done" && competition_state_ != "done"
EndedNow_any_done(data) == data = "done"
EndedNow(data) == data = "done" /\ competition_state_ # "done"

competition_state_callback(data) ==
    /\ log' = IF EndedNow(data) THEN Append(log, Line("Competition ended.")) ELSE log
    /\ competition_state_' = data
    /\ UNCHANGED <<current_score_, received_orders_, current_joint_states_,
                   has_been_zeroed_, published, now, last_hit>>

\* received_orders_.push_back(*order_msg)
push_back_front(orders, order_msg) == <<order_msg>> \o orders
push_back_latest(orders, order_msg) == <<order_msg>>
push_back(orders, order_msg) == Append(orders, order_msg)

order_callback(order_msg) ==
    /\ log' = Append(log, LineWith("Received order:", order_msg))
    /\ received_orders_' = push_back(received_orders_, order_msg)
    /\ UNCHANGED <<current_score_, competition_state_, current_joint_states_,
                   has_been_zeroed_, published, now, last_hit>>

\* the message send_arm_to_zero_state builds; time_from_start in thousandths of a second
ZeroJointNames_with_gripper ==
    <<"iiwa_joint_1", "iiwa_joint_2", "iiwa_joint_3", "iiwa_joint_4",
      "iiwa_joint_5", "iiwa_joint_6", "iiwa_joint_7", "linear_arm_actuator_joint",
      "vacuum_gripper_joint">>
ZeroJointNames ==
    <<"iiwa_joint_1", "iiwa_joint_2", "iiwa_joint_3", "iiwa_joint_4",
      "iiwa_joint_5", "iiwa_joint_6", "iiwa_joint_7", "linear_arm_actuator_joint">>

ZeroTrajectory ==
    [joint_names |-> ZeroJointNames,
     points |-> <<[positions |-> [i \in 1..Len(ZeroJointNames) |-> F(0)],
                   time_from_start |-> 1]>>]

\* has_been_zeroed_ = true
ZeroedNow_forgotten == FALSE
ZeroedNow == TRUE

\* if (!has_been_zeroed_)
NeedsZeroing_always == TRUE
NeedsZeroing_if_started == ~has_been_zeroed_ /\ srv.success
NeedsZeroing_if_running == ~has_been_zeroed_ /\ competition_state_ = "running"
NeedsZeroing == ~has_been_zeroed_

joint_state_callback(joint_state_msg, t) ==
    /\ now' = t
    /\ last_hit' = Hit("joint", SlowPeriod, t)
    /\ current_joint_states_' = joint_state_msg
    /\ IF NeedsZeroing
       THEN /\ has_been_zeroed_' = ZeroedNow
            /\ log' = log \o Throttled("joint", SlowPeriod, t,
                                       Line("Joint States (throttled to 0.1 Hz):"))
                          \o <<Line("Sending arm to zero joint positions..."),
                               Line("Sending command:")>>
            /\ published' = Append(published, ZeroTrajectory)
       ELSE /\ has_been_zeroed_' = has_been_zeroed_
            /\ log' = log \o Throttled("joint", SlowPeriod, t,
                                       Line("Joint States (throttled to 0.1 Hz):"))
            /\ published' = published
    /\ UNCHANGED <<current_score_, competition_state_, received_orders_>>

logical_camera_callback(image_msg, t) ==
    /\ now' = t
    /\ last_hit' = Hit("camera", SlowPeriod, t)
    /\ log' = log \o Throttled("camera", SlowPeriod, t, Line("Logical camera: objects."))
    /\ UNCHANGED observerVars

break_beam_callback_publishes(object_detected) ==
    /\ log' = IF object_detected THEN Append(log, Line("Break beam triggered.")) ELSE log
    /\ published' = IF object_detected THEN Append(published, ZeroTrajectory) ELSE published
    /\ UNCHANGED <<current_score_, competition_state_, received_orders_,
                   current_joint_states_, has_been_zeroed_, now, last_hit>>
break_beam_callback(object_detected) ==
    /\ log' = IF object_detected THEN Append(log, Line("Break beam triggered.")) ELSE log
    /\ UNCHANGED <<observerVars, now, last_hit>>

----------------------------------------------------------------------------
(* The free sensor handlers. *)

\* a >= t, t a finite number
FloatGe(a, t) ==
    CASE a.cls = "finite" -> a.v >= t
      [] a.cls = "pinf" -> TRUE
      [] OTHER -> FALSE

\* (msg->max_range - msg->range) > 0.01
ProximityDetects_at_threshold(msg) ==
    FloatGe(FloatSub(msg.max_range, msg.range), ProximityThreshold)
ProximityDetects(msg) ==
    FloatGt(FloatSub(msg.max_range, msg.range), ProximityThreshold)

proximity_sensor_callback(msg, t) ==
    /\ IF ProximityDetects(msg)
       THEN /\ now' = t
            /\ last_hit' = Hit("proximity", FastPeriod, t)
            /\ log' = log \o Throttled("proximity", FastPeriod, t,
                                       Line("Proximity sensor sees something."))
       ELSE UNCHANGED <<now, last_hit, log>>
    /\ UNCHANGED observerVars

\* std::count_if(ranges.begin(), ranges.end(), std::isfinite<float>)
RECURSIVE CountFinite(_)
CountFinite(ranges) ==
    IF ranges = <<>> THEN 0
    ELSE (IF IsFinite(Head(ranges)) THEN 1 ELSE 0) + CountFinite(Tail(ranges))

RECURSIVE CountNotNaN(_)
CountNotNaN(ranges) ==
    IF ranges = <<>> THEN 0
    ELSE (IF Head(ranges).cls # "nan" THEN 1 ELSE 0) + CountNotNaN(Tail(ranges))

number_of_valid_ranges_all(ranges) == Len(ranges)
number_of_valid_ranges_not_nan(ranges) == CountNotNaN(ranges)
number_of_valid_ranges(ranges) == CountFinite(ranges)

laser_profiler_callback(ranges, t) ==
    /\ IF number_of_valid_ranges(ranges) > 0
       THEN /\ now' = t
            /\ last_hit' = Hit("laser", FastPeriod, t)
            /\ log' = log \o Throttled("laser", FastPeriod, t,
                                       Line("Laser profiler sees something."))
       ELSE UNCHANGED <<now, last_hit, log>>
    /\ UNCHANGED observerVars

----------------------------------------------------------------------------
(* Dispatch of the head of the queue to the handler of its topic. *)

DispatchScore ==
    /\ Dispatching("current_score")
    /\ Taken
    /\ current_score_callback(Head(queue).data)

DispatchCompetitionState ==
    /\ Dispatching("competition_state")
    /\ Taken
    /\ competition_state_callback(Head(queue).data)

DispatchOrder ==
    /\ Dispatching("orders")
    /\ Taken
    /\ order_callback(Head(queue).data)

DispatchJointState ==
    /\ Dispatching("joint_states")
    /\ Taken
    /\ \E t \in 0..MaxTime : Clock(t) /\ joint_state_callback(Head(queue).data, t)

DispatchLogicalCamera ==
    /\ Dispatching("logical_camera_1")
    /\ Taken
    /\ \E t \in 0..MaxTime : Clock(t) /\ logical_camera_callback(Head(queue).data, t)

DispatchBreakBeam ==
    /\ Dispatching("break_beam_1_change")
    /\ Taken
    /\ break_beam_callback(Head(queue).data)

DispatchProximity ==
    /\ Dispatching("proximity_sensor_1")
    /\ Taken
    /\ \E t \in 0..MaxTime : Clock(t) /\ proximity_sensor_callback(Head(queue).data, t)

DispatchLaserScan ==
    /\ Dispatching("laser_profiler_1")
    /\ Taken
    /\ \E t \in 0..MaxTime : Clock(t) /\ laser_profiler_callback(Head(queue).data, t)

Gate == Setup \/ CheckExists \/ WaitForExistence \/ RequestStart \/ CallReturns
           \/ CheckResult

Dispatch ==
    \/ DispatchScore
    \/ DispatchCompetitionState
    \/ DispatchOrder
    \/ DispatchJointState
    \/ DispatchLogicalCamera
    \/ DispatchBreakBeam
    \/ DispatchProximity
    \/ DispatchLaserScan

----------------------------------------------------------------------------
(* Specifications. *)

\* the whole program, every topic publishing
Next ==
    \/ Setup
    \/ CheckExists
    \/ WaitForExistence
    \/ RequestStart
    \/ CallReturns
    \/ CheckResult
    \/ ServiceUp
    \/ ArriveScore(MaxArrivals)
    \/ ArriveCompetitionState(MaxArrivals)
    \/ ArriveOrder(MaxArrivals)
    \/ ArriveJointState(MaxArrivals)
    \/ ArriveProximity(MaxArrivals)
    \/ ArriveBreakBeam(MaxArrivals)
    \/ ArriveLogicalCamera(MaxArrivals)
    \/ ArriveLaserScan(MaxArrivals)
    \/ DispatchScore
    \/ DispatchCompetitionState
    \/ DispatchOrder
    \/ DispatchJointState
    \/ DispatchLogicalCamera
    \/ DispatchBreakBeam
    \/ DispatchProximity
    \/ DispatchLaserScan

Spec == Init /\ [][Next]_vars

\* the observer's four stateful topics alone publishing
ObserverNext ==
    \/ Setup
    \/ CheckExists
    \/ WaitForExistence
    \/ RequestStart
    \/ CallReturns
    \/ CheckResult
    \/ ServiceUp
    \/ ArriveScore(MaxObserverArrivals)
    \/ ArriveCompetitionState(MaxObserverArrivals)
    \/ ArriveOrder(MaxObserverArrivals)
    \/ ArriveJointState(MaxObserverArrivals)
    \/ DispatchScore
    \/ DispatchCompetitionState
    \/ DispatchOrder
    \/ DispatchJointState

ObserverSpec == Init /\ [][ObserverNext]_vars

\* main runs on, a call returns, and ros::spin() hands over a queued notification
FairSpec == Spec /\ WF_vars(Gate) /\ WF_vars(Dispatch)
FairObserverSpec == ObserverSpec /\ WF_vars(Gate) /\ WF_vars(Dispatch)

----------------------------------------------------------------------------
(* What the claims speak of. *)

WaitingText == "Waiting for the competition to be ready..."
ReadyText == "Competition is now ready."
RequestingText == "Requesting competition start..."
FailedText == "Failed to start the competition: "
StartedText == "Competition started!"

\* the data of the notifications of one topic in a sequence of notifications
RECURSIVE DataOf(_, _)
DataOf(msgs, topic) ==
    IF msgs = <<>> THEN <<>>
    ELSE (IF Head(msgs).topic = topic THEN <<Head(msgs).data>> ELSE <<>>)
         \o DataOf(Tail(msgs), topic)

JointsHandled == CountTopic(history, "joint_states")

\* the observer as constructed, and no line of a handler in the log
Untouched ==
    /\ history = <<>>
    /\ current_score_ = F(0)
    /\ competition_state_ = ""
    /\ received_orders_ = <<>>
    /\ current_joint_states_ = "empty"
    /\ ~has_been_zeroed_
    /\ published = <<>>
    /\ \A i \in 1..Len(log) :
          log[i].text \in {"Setup complete.", WaitingText, ReadyText, RequestingText,
                           FailedText, StartedText}

----------------------------------------------------------------------------
(* C1: the zero-pose command is published once: nothing is published      *)
(* before the first joint-state notification is handled, one command is    *)
(* published by then, and however many joint-state notifications are       *)
(* handled afterwards the number of publishes stays 1.                     *)

C1_PublishedOnce ==
    /\ Len(published) <= 1
    /\ Len(published) = (IF JointsHandled >= 1 THEN 1 ELSE 0)
    /\ \A i \in 1..Len(published) : published[i] = ZeroTrajectory

C1_Witness == JointsHandled >= 2 /\ Len(published) = 1

(* C2: start_competition issues one start request.  Whatever call(srv)     *)
(* gives (success, refusal, a failed call), no second request is sent, the *)
(* process does not leave, and control is in ros::spin() afterwards.       *)

C2_OneRequest ==
    /\ requests <= 1
    /\ pc \in {"main", "exists", "wait", "request", "call", "check", "spin"}
    /\ requests = 1 <=> pc \in {"call", "check", "spin"}

C2_Witness == pc = "spin" /\ ~srv.ret /\ requests = 1 /\ history # <<>>

(* C3: the gate is wait, call, check result, in this order.  A request is  *)
(* issued only when the service is there; the outcome line is logged only  *)
(* once the call has returned.  The lines "Waiting ..." and "... is now    *)
(* ready." are logged at most once each, in that order, and only when      *)
(* exists() returned false; neither is logged when it returned true.       *)

C3_LinearGate ==
    /\ requests > 0 => serviceExists /\ existed # "unasked"
    /\ CountText(log, WaitingText) = (IF existed = "no" THEN 1 ELSE 0)
    /\ CountText(log, ReadyText) =
          (IF existed = "no" /\ pc \notin {"wait"} THEN 1 ELSE 0)
    /\ Pos(ReadyText) > 0 => Pos(WaitingText) > 0 /\ Pos(WaitingText) < Pos(ReadyText)
    /\ CountText(log, RequestingText) = requests
    /\ Pos(RequestingText) > 0 => Pos(ReadyText) < Pos(RequestingText)
    /\ CountText(log, FailedText) + CountText(log, StartedText) > 0
          => /\ pc = "spin"
             /\ Pos(RequestingText) > 0
             /\ Pos(FailedText) = 0 \/ Pos(RequestingText) < Pos(FailedText)
             /\ Pos(StartedText) = 0 \/ Pos(RequestingText) < Pos(StartedText)

C3_Witness == existed = "no" /\ pc = "spin" /\ srv.ret /\ srv.success

(* C4: once the call has returned and its result has been looked at, one   *)
(* outcome line is in the log, chosen by the response's success flag: the  *)
(* error line, once, with the response's message, when the flag is false;  *)
(* "Competition started!" alone when it is true.                           *)

C4_OneOutcomeLine ==
    IF pc # "spin"
    THEN CountText(log, FailedText) = 0 /\ CountText(log, StartedText) = 0
    ELSE IF ~srv.success
    THEN /\ CountLine(log, LineWith(FailedText, srv.message)) = 1
         /\ CountText(log, FailedText) = 1
         /\ CountText(log, StartedText) = 0
    ELSE /\ CountText(log, StartedText) = 1
         /\ CountText(log, FailedText) = 0

C4_Witness == pc = "spin" /\ srv.ret /\ ~srv.success /\ srv.message = "X"

(* C5: no handler runs before start_competition has returned, although    *)
(* notifications are received from the subscriptions on: until then the    *)
(* observer is as constructed, nothing is published and no handler has     *)
(* logged.  The zero-pose command is published after the start request.    *)

C5_GateBeforeDispatch ==
    /\ pc # "spin" => Untouched
    /\ published # <<>> => requests = 1

C5_Witness ==
    /\ pc = "call"
    /\ queue # <<>>
    /\ Head(queue).topic = "joint_states"

(* C6: once the service is there, the request is issued and                *)
(* start_competition returns, and a notification that waits is then handed *)
(* to its handler; as long as the service is not there, the gate waits: no *)
(* request is issued and no handler runs.                                  *)

C6_GateProgress ==
    /\ serviceExists ~> (pc = "spin" /\ requests = 1)
    /\ (serviceExists /\ queue # <<>>) ~> (history # <<>>)
    /\ [](~serviceExists =>
            /\ pc \in {"main", "exists", "wait"}
            /\ requests = 0
            /\ history = <<>>)

C6_Witness == existed = "no" /\ pc = "spin" /\ history # <<>> /\ queue = <<>>

----------------------------------------------------------------------------
ScoreText == "Score: "
EndedText == "Competition ended."
ProximityText == "Proximity sensor sees something."
LaserText == "Laser profiler sees something."

ScoresHandled == DataOf(history, "current_score")
StatesHandled == DataOf(history, "competition_state")

\* the values of a sequence, as a set
Values(seq) == {seq[i] : i \in 1..Len(seq)}

\* the number of places where a value compares unequal to the one before it
RECURSIVE Changes(_)
Changes(seq) ==
    IF Len(seq) < 2 THEN 0
    ELSE (IF FloatNe(seq[1], seq[2]) THEN 1 ELSE 0) + Changes(Tail(seq))

\* the number of places where "done" follows another value
RECURSIVE Endings(_)
Endings(seq) ==
    IF Len(seq) < 2 THEN 0
    ELSE (IF seq[2] = "done" /\ seq[1] # "done" THEN 1 ELSE 0) + Endings(Tail(seq))

\* this step hands the head of the queue to the handler of the topic
Handles(topic) ==
    /\ queue # <<>>
    /\ Head(queue).topic = topic
    /\ history' = Append(history, Head(queue))

\* this step adds one line with the text to the log, and nothing else
Logs(text) == log' = Append(log, Line(text))

(* C7, as claimed: over the score notifications handled so far, the number *)
(* of score lines logged is the number of distinct values delivered.       *)

C7_OnePerDistinctValue ==
    CountText(log, ScoreText) = Cardinality(Values(ScoresHandled))

(* C7, amended: the number of score lines logged is the number of score    *)
(* notifications whose value compares unequal to the value delivered       *)
(* before it, or to 0 for the first one; a value delivered again right     *)
(* after itself is not logged again, unless it is NaN.                     *)

C7_OnePerChange ==
    CountText(log, ScoreText) = Changes(<<F(0)>> \o ScoresHandled)

C7_Witness ==
    /\ ScoresHandled = <<F(1), F(1), F(0)>>
    /\ CountText(log, ScoreText) = 2

(* C8: "Competition ended." is logged by a competition-state notification *)
(* exactly when its value is "done" and the stored state, the empty string *)
(* at first, is not "done": the number of such lines is the number of      *)
(* places where "done" follows another value, one for running, running,    *)
(* done, and the stored state is the value delivered last.                 *)

C8_EndedOnTransition ==
    LET states == <<"">> \o StatesHandled
    IN  /\ CountText(log, EndedText) = Endings(states)
        /\ competition_state_ = states[Len(states)]

C8_Witness ==
    /\ StatesHandled = <<"running", "running", "done">>
    /\ CountText(log, EndedText) = 1
    /\ competition_state_ = "done"

(* C9: a proximity notification logs "Proximity sensor sees something."    *)
(* when max_range - range is more than 0.01 and the throttle of one second *)
(* lets the line through, and logs nothing otherwise: a range 0.02 below   *)
(* max_range logs, a range 0.005 or 0.01 below it does not.                *)

C10_LaserFinite ==
    [][Handles("laser_profiler_1") =>
         LET ranges == Head(queue).data
             some == \E i \in 1..Len(ranges) : ranges[i].cls = "finite"
         IN  IF some /\ last_hit["laser"] + FastPeriod <= now'
             THEN Logs(LaserText)
             ELSE log' = log]_vars

C10_Witness ==
    /\ history # <<>>
    /\ history[Len(history)].topic = "laser_profiler_1"
    /\ history[Len(history)].data = <<PosInf, F(1)>>
    /\ log[Len(log)].text = LaserText

----------------------------------------------------------------------------
(* C11: the latch goes one way.  It is false as constructed, true from the *)
(* first joint-state notification handled on, and no step sets it back.    *)
(* At most one zero-pose command is published, and one is published only  *)
(* with the latch set.                                                     *)

LastOf(seq) == seq[Len(seq)]

C12_LogOnChange ==
    /\ [](current_score_ = LastOf(<<F(0)>> \o ScoresHandled))
    /\ [][Handles("current_score") =>
            LET data == Head(queue).data
            IN  /\ IF data.cls = "nan" \/ current_score_.cls = "nan"
                      \/ data # current_score_
                   THEN Logs(ScoreText)
                   ELSE log' = log
                /\ current_score_' = data]_vars

C12_Witness ==
    /\ ScoresHandled = <<F(0), F(1), F(0)>>
    /\ CountText(log, ScoreText) = 2
    /\ log[Len(log)].text = ScoreText

(* C13: handlers run one at a time and never while the startup gate runs:  *)
(* the observer's state changes only in a step of ros::spin() that hands   *)
(* the head of the queue to its handler and leaves the gate alone.  So,    *)
(* whatever the order in which the eight topics deliver, the zero-pose     *)
(* command is published once, and the score and "Competition ended." lines *)
(* are logged on change.                                                   *)

JointText == "Joint States (throttled to 0.1 Hz):"

C15_ThrottleGatesLogOnly ==
    [][Handles("joint_states") =>
         LET lines == CountText(log', JointText) - CountText(log, JointText)
         IN  /\ lines \in {0, 1}
             /\ lines = 1 => /\ now' >= last_hit["joint"] + SlowPeriod
                             /\ last_hit'["joint"] = now'
             /\ lines = 0 => last_hit'["joint"] = last_hit["joint"]
             /\ current_joint_states_' = Head(queue).data
             /\ has_been_zeroed_'
             /\ IF has_been_zeroed_
                THEN published' = published
                ELSE published' = Append(published, ZeroTrajectory)]_vars

C15_Witness ==
    /\ JointsHandled = 3
    /\ CountText(log, JointText) = 2
    /\ log[Len(log)].text = JointText
    \* the first handler line, after the request and its outcome: the first
    \* notification published the command while its own line was held back
    /\ log[Pos(RequestingText) + 2].text = "Sending arm to zero joint positions..."
    /\ current_joint_states_ = "joints_b"

(* C16: every command published is the same message, whatever the         *)
(* observer's state and the notification that set it off: the joint names  *)
(* iiwa_joint_1 to iiwa_joint_7 and linear_arm_actuator_joint in this      *)
(* order, one trajectory point, as many positions as joint names, all 0.0, *)
(* and a time from start of 0.001 seconds.                                 *)

C16_FixedZeroPose ==
    \A i \in 1..Len(published) :
        LET msg == published[i]
        IN  /\ Len(msg.joint_names) = 8
            /\ \A j \in 1..7 :
                  msg.joint_names[j] =
                     <<"iiwa_joint_1", "iiwa_joint_2", "iiwa_joint_3", "iiwa_joint_4",
                       "iiwa_joint_5", "iiwa_joint_6", "iiwa_joint_7">>[j]
            /\ msg.joint_names[8] = "linear_arm_actuator_joint"
            /\ Len(msg.points) = 1
            /\ Len(msg.points[1].positions) = Len(msg.joint_names)
            /\ \A j \in 1..Len(msg.points[1].positions) :
                  msg.points[1].positions[j] = F(0)
            /\ msg.points[1].time_from_start = 1

C16_Witness ==
    /\ Len(published) = 1
    /\ competition_state_ = "done"
    /\ current_score_ = F(1)
    /\ current_joint_states_ = "joints_a"
    /\ history[3].topic = "joint_states"

(* C17: every order notification adds one entry at the end of              *)
(* received_orders_ and nothing takes one away or moves one: the sequence  *)
(* is the orders handled so far, in the order handled, and each step       *)
(* leaves it as it is or extends it by one entry at the end.               *)

C17_OrdersAppendOnly ==
    /\ [](/\ Len(received_orders_) = CountTopic(history, "orders")
          /\ received_orders_ = DataOf(history, "orders"))
    /\ [][\/ received_orders_' = received_orders_
          \/ /\ Handles("orders")
             /\ Len(received_orders_') = Len(received_orders_) + 1
             /\ SubSeq(received_orders_', 1, Len(received_orders_)) = received_orders_
             /\ received_orders_'[Len(received_orders_')] = Head(queue).data]_vars

C17_Witness ==
    /\ received_orders_ = <<"order_1", "order_0">>
    /\ Len(history) = 3
    /\ history[2].topic = "competition_state"

(* C18: each handler changes its own piece of the observer's state and no  *)
(* other: the score handler the stored score, the competition-state        *)
(* handler the stored state, the order handler the orders, the joint-state *)
(* handler the stored joint state and the latch; the logical-camera,       *)
(* break-beam, proximity and laser handlers change none.  The joint-state  *)
(* handler alone publishes and alone changes the latch.                    *)

C18_HandlerFrames ==
    /\ [][Handles("current_score") =>
            UNCHANGED <<competition_state_, received_orders_, current_joint_states_,
                        has_been_zeroed_, published>>]_vars
    /\ [][Handles("competition_state") =>
            UNCHANGED <<current_score_, received_orders_, current_joint_states_,
                        has_been_zeroed_, published>>]_vars
    /\ [][Handles("orders") =>
            UNCHANGED <<current_score_, competition_state_, current_joint_states_,
                        has_been_zeroed_, published>>]_vars
    /\ [][Handles("joint_states") =>
            UNCHANGED <<current_score_, competition_state_, received_orders_>>]_vars
    /\ [][(\E topic \in {"logical_camera_1", "break_beam_1_change",
                         "proximity_sensor_1", "laser_profiler_1"} : Handles(topic))
            => UNCHANGED observerVars]_vars
    /\ [][(published' # published \/ has_been_zeroed_' # has_been_zeroed_)
            => Handles("joint_states")]_vars

C18_Witness ==
    /\ Len(history) = 2
    /\ history[1].topic = "joint_states"
    /\ history[2].topic = "break_beam_1_change"
    /\ history[2].data
    /\ log[Len(log)].text = "Break beam triggered."
    /\ Len(published) = 1

(* C19: the latch alone gates the zero-pose command: the first joint-state *)
(* notification handled publishes it, also when the start request was      *)
(* refused or the call failed, and whether the stored competition state is *)
(* "done", another value or still empty.                                   *)

C19_LatchAloneGates ==
    [][Handles("joint_states") /\ JointsHandled = 0 =>
         /\ published = <<>>
         /\ published' = <<ZeroTrajectory>>
         /\ has_been_zeroed_']_vars

C19_Witness ==
    /\ srv.ret
    /\ ~srv.success
    /\ Len(history) = 2
    /\ history[1].topic = "competition_state"
    /\ history[1].data = "done"
    /\ history[2].topic = "joint_states"
    /\ competition_state_ = "done"
    /\ Len(published) = 1

====
